---- MODULE Spec2Model ----
(***************************************************************************)
(* Model of src/step1_extract.py: the translatability classifier           *)
(* (is_translatable_text and its helpers), the identifier scheme           *)
(* (BLOCK_n, BLOCK_n_Sk), the segmentation glue (process_text_block), the  *)
(* JSON-LD walker (extract_from_jsonld) and the five extraction phases of  *)
(* extract_translatable_html.                                              *)
(*                                                                         *)
(* Strings the code inspects (lower(), strip(), regular expressions,       *)
(* startswith, substring tests, f-strings, json.loads / json.dumps) are    *)
(* sequences of one-character strings.  Tag names and attribute names,     *)
(* which the code only compares or looks up, are plain strings.            *)
(*                                                                         *)
(* The parsed document (BeautifulSoup tree) is the sequence soup of nodes  *)
(* in document order; each node names its parent by index (0: the          *)
(* document object).                                                       *)
(*                                                                         *)
(* The linguistic annotator (spaCy) and the language detector are external *)
(* and deterministic: annot maps each text that has been segmented to the  *)
(* number of sentences returned for it, chosen when the text is first      *)
(* segmented.  Sentences of an empty text do not exist.  The k-th sentence *)
(* of a text t is the pair <<t, k>>; the word level below a sentence does  *)
(* not influence block identifiers, placeholders or the tree and is left   *)
(* out of the records.                                                     *)
(***************************************************************************)
EXTENDS Integers, Sequences, FiniteSets, TLC

VARIABLES
    soup,               \* the parsed tree, mutated in place
    structured_output,  \* block id -> [kind, ctx, tokens]
    flattened_output,   \* sentence id -> sentence text
    block_counter,      \* next block number
    pc,                 \* phase of extract_translatable_html
    cur,                \* index of the next node the phase's loop visits
    attr_order,         \* iteration order of the set TRANSLATABLE_ATTRS in this process
    annot,              \* the annotator, as far as it has been asked
    visits,             \* history: one record per call of process_text_with_language_detection
    written,            \* history: tree locations a placeholder was written to
    run,                \* 1 or 2 (second run of the program on the same input)
    first,              \* outputs of the first run, once a second run has started
    verdict,            \* result of a stand-alone call of is_translatable_text
    input               \* the document as parsed, before any phase has run

vars == <<soup, structured_output, flattened_output, block_counter, pc, cur,
          attr_order, annot, visits, written, run, first, verdict, input>>

\* ------------------------------------------------------------------ bounds

\* Longest text fragment handed to the classifier on its own.
MaxLen == 3

\* Most sentences the annotator returns for one fragment.
MaxSents == 2

\* ------------------------------------------------------------- characters

LowerSeq == <<"a","b","c","d","e","f","g","h","i","j","k","l","m",
              "n","o","p","q","r","s","t","u","v","w","x","y","z">>

UpperSeq == <<"A","B","C","D","E","F","G","H","I","J","K","L","M",
              "N","O","P","Q","R","S","T","U","V","W","X","Y","Z">>

DigitSeq == <<"0","1","2","3","4","5","6","7","8","9">>

Range(s) == {s[i] : i \in 1..Len(s)}

\* [A-Za-z]
AsciiLetter == Range(LowerSeq) \cup Range(UpperSeq)

\* Characters outside ASCII are written by their code point: "U+5317" is one
\* character.
\* [\u4e00-\u9fff], as far as the model's texts use it
ChineseChar == {"U+5317", "U+4EAC"}

\* [\u0600-\u06FF\u0400-\u04FF\u0370-\u03FF], as far as the model's texts use it
OtherExceptionChar == {"U+044F", "U+03BB"}

\* Latin letters outside ASCII, as far as the model's texts use them
AccentedLetter == {"U+00E9"}

\* \p{L}
Letter == AsciiLetter \cup ChineseChar \cup OtherExceptionChar \cup AccentedLetter

\* \d
Digit == Range(DigitSeq)

\* \w
WordChar == Letter \cup Digit \cup {"_"}

\* \s
Space == {" ", "\n", "\t"}

\* \p{P}, as far as the model's texts use it
Punct == {"!", ".", ",", ":", ";", "?", "\"", "'", "(", ")", "[", "]", "{", "}",
          "@", "_", "-", "*", "/", "\\", "#", "%", "&"}

\* \p{S}, as far as the model's texts use it
Symbol == {"+", "=", "$", "^", "<", ">", "|", "~"}

\* str.lower() on one character
LowerChar(c) ==
    IF c \in Range(UpperSeq)
    THEN LowerSeq[CHOOSE k \in 1..Len(UpperSeq) : UpperSeq[k] = c]
    ELSE c

\* str.lower()
str_lower(s) == [i \in 1..Len(s) |-> LowerChar(s[i])]

\* str.strip()
str_strip(s) ==
    IF \A i \in 1..Len(s) : s[i] \in Space
    THEN <<>>
    ELSE LET a == CHOOSE i \in 1..Len(s) :
                      s[i] \notin Space /\ \A j \in 1..(i-1) : s[j] \in Space
             b == CHOOSE i \in 1..Len(s) :
                      s[i] \notin Space /\ \A j \in (i+1)..Len(s) : s[j] \in Space
         IN  SubSeq(s, a, b)

\* needle in haystack (substring test)
str_contains(hay, needle) ==
    \E i \in 0..(Len(hay) - Len(needle)) :
        \A k \in 1..Len(needle) : hay[i + k] = needle[k]

\* str.startswith
str_startswith(s, prefix) ==
    /\ Len(prefix) =< Len(s)
    /\ \A k \in 1..Len(prefix) : s[k] = prefix[k]

\* str(n) for a natural number
RECURSIVE IntToStr(_)
IntToStr(n) ==
    IF n < 10 THEN <<DigitSeq[n + 1]>>
    ELSE IntToStr(n \div 10) \o <<DigitSeq[(n % 10) + 1]>>

\* ------------------------------------------------------------- the tree

NoAttrs == [a \in {} |-> <<>>]

TagNode(parent, name, attrs, classes) ==
    [kind |-> "tag", parent |-> parent, name |-> name, attrs |-> attrs,
     classes |-> classes, text |-> <<>>]

TextNode(parent, text) ==
    [kind |-> "text", parent |-> parent, name |-> "", attrs |-> NoAttrs,
     classes |-> {}, text |-> text]

CommentNode(parent, text) ==
    [kind |-> "comment", parent |-> parent, name |-> "", attrs |-> NoAttrs,
     classes |-> {}, text |-> text]

\* tag.get(attr, "")
GetAttr(node, attr) == IF attr \in DOMAIN node.attrs THEN node.attrs[attr] ELSE <<>>

IsString(node) == node.kind \in {"text", "comment"}

\* a is i or one of i's ancestors
RECURSIVE IsAncestorOrSelf(_, _, _)
IsAncestorOrSelf(tree, a, i) ==
    IF i = a THEN TRUE
    ELSE IF i = 0 THEN FALSE
    ELSE IsAncestorOrSelf(tree, a, tree[i].parent)

\* parent.text: the text nodes below p, concatenated in document order
RECURSIVE TextFrom(_, _, _)
TextFrom(tree, p, i) ==
    IF i > Len(tree) THEN <<>>
    ELSE (IF tree[i].kind = "text" /\ IsAncestorOrSelf(tree, p, i)
          THEN tree[i].text ELSE <<>>) \o TextFrom(tree, p, i + 1)

ParentText(tree, p) == TextFrom(tree, p, 1)

\* tag.name (the document object is node 0)
NodeName(tree, i) == IF i = 0 THEN "[document]" ELSE tree[i].name

NodeClasses(tree, i) == IF i = 0 THEN {} ELSE tree[i].classes

\* ------------------------------------------------------- program constants

TRANSLATABLE_TAGS ==
    {"p", "span", "div", "h1", "h2", "h3", "h4", "h5", "h6",
     "label", "button", "li", "td", "th", "a", "strong", "em",
     "b", "i", "caption", "summary", "figcaption", "option", "optgroup",
     "legend", "mark", "output", "details", "time"}

TRANSLATABLE_ATTRS ==
    {"alt", "title", "placeholder", "aria-label", "aria-placeholder",
     "aria-valuetext", "aria-roledescription", "value",
     "data-i18n", "data-caption", "data-title", "data-tooltip",
     "data-label", "data-error"}

SKIP_PARENTS ==
    {"script", "style", "code", "pre", "noscript", "template", "svg", "canvas",
     "frameset", "frame", "noframes", "object", "embed", "base", "map"}

BLOCKED_ATTRS ==
    {"accept", "align", "autocomplete", "bgcolor", "charset", "class", "content",
     "dir", "download", "href", "id", "lang", "name", "rel", "src", "style", "type"}

\* The string sets below hold values the code lower-cases, searches or writes
\* into the tree: sequences of characters.
SEO_META_NAMES ==
    {<<"d","e","s","c","r","i","p","t","i","o","n">>,
     <<"k","e","y","w","o","r","d","s">>,
     <<"r","o","b","o","t","s">>,
     <<"a","u","t","h","o","r">>,
     <<"v","i","e","w","p","o","r","t">>,
     <<"t","h","e","m","e","-","c","o","l","o","r">>}

SEO_META_PROPERTIES ==
    {<<"o","g",":","t","i","t","l","e">>,
     <<"o","g",":","d","e","s","c","r","i","p","t","i","o","n">>,
     <<"o","g",":","i","m","a","g","e">>,
     <<"o","g",":","u","r","l">>,
     <<"t","w","i","t","t","e","r",":","t","i","t","l","e">>,
     <<"t","w","i","t","t","e","r",":","d","e","s","c","r","i","p","t","i","o","n">>,
     <<"t","w","i","t","t","e","r",":","i","m","a","g","e">>,
     <<"t","w","i","t","t","e","r",":","c","a","r","d">>}

TRANSLATABLE_JSONLD_KEYS ==
    {<<"n","a","m","e">>,
     <<"d","e","s","c","r","i","p","t","i","o","n">>,
     <<"h","e","a","d","l","i","n","e">>,
     <<"c","a","p","t","i","o","n">>,
     <<"a","l","t","e","r","n","a","t","e","N","a","m","e">>,
     <<"s","u","m","m","a","r","y">>,
     <<"t","i","t","l","e">>,
     <<"a","b","o","u","t">>}

JSONLD_EXCLUDE_KEYS ==
    {<<"d","u","r","a","t","i","o","n">>,
     <<"u","p","l","o","a","d","D","a","t","e">>,
     <<"e","m","b","e","d","U","r","l">>,
     <<"c","o","n","t","e","n","t","U","r","l">>,
     <<"t","h","u","m","b","n","a","i","l","U","r","l">>}

EXCLUDED_META_NAMES == {<<"v","i","e","w","p","o","r","t">>}

EXCLUDED_META_PROPERTIES == {<<"o","g",":","u","r","l">>}

\* ["url", "date", "time", "type"] in extract_from_jsonld
JSONLD_FIELD_MARKERS == {<<"u","r","l">>, <<"d","a","t","e">>, <<"t","i","m","e">>, <<"t","y","p","e">>}

Yes == <<"y","e","s">>
No == <<"n","o">>
None == <<>>

\* ------------------------------------------------------------ classifier

\* not re.search(r'[A-Za-z]', text)
is_pure_symbol(text) == ~ \E i \in 1..Len(text) : text[i] \in AsciiLetter

\* re.search(r'[\u4e00-\u9fff]', text) is not None
contains_chinese(text) == \E i \in 1..Len(text) : text[i] \in ChineseChar

is_exception_language(text) ==
    contains_chinese(text) \/ \E i \in 1..Len(text) : text[i] \in OtherExceptionChar

\* re.search(r'\b\p{L}{3,}\b', text): a run of three or more letters that
\* starts and ends at a word boundary
has_real_words(text) ==
    \E i \in 1..Len(text) : \E j \in (i + 2)..Len(text) :
        /\ \A k \in i..j : text[k] \in Letter
        /\ i = 1 \/ text[i - 1] \notin WordChar
        /\ j = Len(text) \/ text[j + 1] \notin WordChar

is_symbol_heavy(text) ==
    IF has_real_words(text) THEN FALSE
    ELSE \E i \in 1..Len(text) : text[i] \in Punct \cup Symbol \cup Digit \cup {"_"}

\* re.search(r'\$.*?\$|\\\(.*?\\\)', text)
LatexMarkup(text) ==
    \/ \E i \in 1..Len(text) : \E j \in (i + 1)..Len(text) :
          /\ text[i] = "$" /\ text[j] = "$"
          /\ \A k \in (i + 1)..(j - 1) : text[k] # "\n"
    \/ \E i \in 1..Len(text) : \E j \in (i + 2)..(Len(text) - 1) :
          /\ text[i] = "\\" /\ text[i + 1] = "("
          /\ text[j] = "\\" /\ text[j + 1] = ")"
          /\ \A k \in (i + 2)..(j - 1) : text[k] # "\n"

\* (\w+\s*[=+\-*/^]\s*\S+)
SimpleEquation(text) ==
    \E k \in 1..Len(text) :
        /\ text[k] \in {"=", "+", "-", "*", "/", "^"}
        /\ \E p \in 1..(k - 1) :
              text[p] \in WordChar /\ \A q \in (p + 1)..(k - 1) : text[q] \in Space
        /\ \E r \in (k + 1)..Len(text) :
              text[r] \notin Space /\ \A q \in (k + 1)..(r - 1) : text[q] \in Space

\* (\d+[\+\-\*/]\d+)
Arithmetic(text) ==
    \E k \in 2..(Len(text) - 1) :
        /\ text[k] \in {"+", "-", "*", "/"}
        /\ text[k - 1] \in Digit
        /\ text[k + 1] \in Digit

\* ([a-zA-Z]+\^?\d+)
Exponent(text) ==
    \E i \in 1..(Len(text) - 1) :
        /\ text[i] \in AsciiLetter
        /\ \/ text[i + 1] \in Digit
           \/ i + 2 =< Len(text) /\ text[i + 1] = "^" /\ text[i + 2] \in Digit

\* re.search(equation_pattern, text, re.VERBOSE)
equation_pattern(text) ==
    SimpleEquation(text) \/ Arithmetic(text) \/ Exponent(text) \/ LatexMarkup(text)

is_math_fragment(text) ==
    (equation_pattern(text) /\ ~ has_real_words(text)) \/ is_symbol_heavy(text)

\* element is the string node tree[i]
has_math_html_markup(tree, i) ==
    LET parent == tree[i].parent
    IN  \/ NodeName(tree, parent) = "math"
        \/ LatexMarkup(ParentText(tree, parent))
        \/ NodeClasses(tree, parent) \cap {"math", "equation", "formula"} # {}

\* The while loop of is_translatable_text: the translate attribute of the nearest
\* ancestor that declares yes or no, None when there is none.
RECURSIVE NearestOverride(_, _)
NearestOverride(tree, e) ==
    IF e = 0 THEN None
    ELSE LET current_translate == str_lower(GetAttr(tree[e], "translate"))
         IN  IF current_translate \in {Yes, No} THEN current_translate
             ELSE NearestOverride(tree, tree[e].parent)

\* "Skip math/symbol content except for certain languages": the condition of the
\* second early return of is_translatable_text, on the stripped text.
SkipsMathOrSymbol(tree, i) ==
    LET text == str_strip(tree[i].text)
    IN  /\ ~ is_exception_language(text)
        /\ \/ is_pure_symbol(text)
           \/ is_math_fragment(text)
           \/ has_math_html_markup(tree, i)

\* default_translatable of is_translatable_text
DefaultTranslatable(tree, i) ==
    LET parent_tag == NodeName(tree, tree[i].parent)
    IN  /\ parent_tag \in TRANSLATABLE_TAGS
        /\ parent_tag \notin SKIP_PARENTS
        /\ tree[i].kind # "comment"

\* Mutant of is_translatable_text: a "yes" override does not bypass the
\* whitelist (the last line returns default_translatable unconditionally).
is_translatable_text_whitelist_only(tree, i) ==
    /\ str_strip(tree[i].text) # <<>>
    /\ ~ SkipsMathOrSymbol(tree, i)
    /\ NearestOverride(tree, tree[i].parent) # No
    /\ DefaultTranslatable(tree, i)

is_translatable_text(tree, i) ==
    LET translate_override == NearestOverride(tree, tree[i].parent)
        text == str_strip(tree[i].text)
    IN  IF text = <<>> THEN FALSE
        ELSE IF SkipsMathOrSymbol(tree, i) THEN FALSE
        ELSE IF translate_override = No THEN FALSE
        ELSE IF translate_override = None THEN DefaultTranslatable(tree, i)
        ELSE translate_override = Yes

\* ------------------------------------------------------ identifier scheme

\* f"BLOCK_{block_counter}"
BlockId(n) == <<"B","L","O","C","K","_">> \o IntToStr(n)

\* Mutant of SentenceIndex: enumerate(doc.sents), which counts from 0.
SentenceIndexFromZero(pos) == pos - 1

\* enumerate(doc.sents, 1): the index of the sentence at position pos (1-based)
SentenceIndex(pos) == pos

\* f"S{s_idx}"
SKey(pos) == <<"S">> \o IntToStr(SentenceIndex(pos))

\* f"{block_id}_{s_key}"
SentenceId(block_id, pos) == block_id \o <<"_">> \o SKey(pos)

\* sent.text: the pos-th sentence of text
SentenceText(text, pos) == <<text, pos>>

\* ------------------------------------------------------------ segmentation

\* n is the number of sentences in nlp(text).sents
process_text_block(block_id, text, n) ==
    [structured |->
        [k \in {SKey(pos) : pos \in 1..n} |->
            [text |-> SentenceText(text, CHOOSE pos \in 1..n : SKey(pos) = k)]],
     flattened |->
        [id \in {SentenceId(block_id, pos) : pos \in 1..n} |->
            SentenceText(text, CHOOSE pos \in 1..n : SentenceId(block_id, pos) = id)],
     sentence_tokens |->
        [pos \in 1..n |-> <<SentenceId(block_id, pos), SentenceText(text, pos)>>]]

\* dict.update / dict[key] = value: the entries of new win
Update(old, new) == new @@ old

\* What the annotator may return for text: what it returned before, nothing for
\* an empty text, any number of sentences otherwise.
SentenceCounts(text) ==
    IF text \in DOMAIN annot THEN {annot[text]}
    ELSE IF text = <<>> THEN {0}
    ELSE 0..MaxSents

\* One call of process_text_with_language_detection, as history.
\*   block: the key under which the result was stored in structured_output,
\*          None when it was not stored;  raised: the call's caller raised.
Visit(phase, loc, text, n, block, raised) ==
    [phase |-> phase, loc |-> loc, text |-> text, n |-> n, block |-> block,
     raised |-> raised]

\* -------------------------------------------------------------------- JSON

JStr(chars) == [t |-> "str", v |-> chars]
JNum(n) == [t |-> "num", v |-> n]
JObj(keys, vals) == [t |-> "obj", keys |-> keys, vals |-> vals]
JArr(items) == [t |-> "arr", items |-> items]

Quote == "\""

\* indent=2: a line break and two spaces per level
Indent(level) == <<"\n">> \o [i \in 1..(2 * level) |-> " "]

\* json.dumps(data, ensure_ascii=False, indent=2); the model's strings hold no
\* character that needs escaping
RECURSIVE Dumps(_, _)
RECURSIVE DumpMembers(_, _, _)
RECURSIVE DumpItems(_, _, _)
Dumps(value, level) ==
    CASE value.t = "str" -> <<Quote>> \o value.v \o <<Quote>>
      [] value.t = "num" -> IntToStr(value.v)
      [] value.t = "obj" ->
            IF value.keys = <<>> THEN <<"{", "}">>
            ELSE <<"{">> \o DumpMembers(value, 1, level + 1) \o Indent(level) \o <<"}">>
      [] value.t = "arr" ->
            IF value.items = <<>> THEN <<"[", "]">>
            ELSE <<"[">> \o DumpItems(value, 1, level + 1) \o Indent(level) \o <<"]">>

DumpMembers(obj, k, level) ==
    IF k > Len(obj.keys) THEN <<>>
    ELSE Indent(level) \o <<Quote>> \o obj.keys[k] \o <<Quote, ":", " ">>
         \o Dumps(obj.vals[k], level)
         \o (IF k < Len(obj.keys) THEN <<",">> ELSE <<>>)
         \o DumpMembers(obj, k + 1, level)

DumpItems(arr, k, level) ==
    IF k > Len(arr.items) THEN <<>>
    ELSE Indent(level) \o Dumps(arr.items[k], level)
         \o (IF k < Len(arr.items) THEN <<",">> ELSE <<>>)
         \o DumpItems(arr, k + 1, level)

\* json.loads: a recursive-descent parser of objects, arrays, strings without
\* escapes and non-negative integers.  A result is [ok, val, pos]; pos is the
\* index after the value.
ParseFail == [ok |-> FALSE, val |-> <<>>, pos |-> 0]

JsonWs == {" ", "\n", "\t", "\r"}

SkipWs(s, i) ==
    IF \E j \in i..Len(s) : s[j] \notin JsonWs
    THEN CHOOSE j \in i..Len(s) : s[j] \notin JsonWs /\ \A q \in i..(j - 1) : s[q] \in JsonWs
    ELSE Len(s) + 1

ParseString(s, i) ==
    IF i > Len(s) \/ s[i] # Quote \/ ~ \E j \in (i + 1)..Len(s) : s[j] = Quote
    THEN ParseFail
    ELSE LET j == CHOOSE j \in (i + 1)..Len(s) :
                      s[j] = Quote /\ \A q \in (i + 1)..(j - 1) : s[q] # Quote
         IN  [ok |-> TRUE, val |-> JStr(SubSeq(s, i + 1, j - 1)), pos |-> j + 1]

RECURSIVE DigitsValue(_)
DigitsValue(d) ==
    IF d = <<>> THEN 0
    ELSE 10 * DigitsValue(SubSeq(d, 1, Len(d) - 1))
         + ((CHOOSE k \in 1..10 : DigitSeq[k] = d[Len(d)]) - 1)

ParseNumber(s, i) ==
    LET j == IF \E q \in i..Len(s) : s[q] \notin Digit
             THEN CHOOSE q \in i..Len(s) :
                      s[q] \notin Digit /\ \A r \in i..(q - 1) : s[r] \in Digit
             ELSE Len(s) + 1
    IN  IF j = i \/ (j - i > 1 /\ s[i] = "0") THEN ParseFail
        ELSE [ok |-> TRUE, val |-> JNum(DigitsValue(SubSeq(s, i, j - 1))), pos |-> j]

RECURSIVE ParseValue(_, _)
RECURSIVE ParseMembers(_, _, _, _)
RECURSIVE ParseItems(_, _, _)
ParseValue(s, i0) ==
    LET i == SkipWs(s, i0)
    IN  IF i > Len(s) THEN ParseFail
        ELSE IF s[i] = Quote THEN ParseString(s, i)
        ELSE IF s[i] \in Digit THEN ParseNumber(s, i)
        ELSE IF s[i] = "{" THEN
            (IF SkipWs(s, i + 1) =< Len(s) /\ s[SkipWs(s, i + 1)] = "}"
             THEN [ok |-> TRUE, val |-> JObj(<<>>, <<>>), pos |-> SkipWs(s, i + 1) + 1]
             ELSE ParseMembers(s, i + 1, <<>>, <<>>))
        ELSE IF s[i] = "[" THEN
            (IF SkipWs(s, i + 1) =< Len(s) /\ s[SkipWs(s, i + 1)] = "]"
             THEN [ok |-> TRUE, val |-> JArr(<<>>), pos |-> SkipWs(s, i + 1) + 1]
             ELSE ParseItems(s, i + 1, <<>>))
        ELSE ParseFail

\* "key": value, then "," and the next member, or "}"
ParseMembers(s, i0, keys, vals) ==
    LET key == ParseString(s, SkipWs(s, i0))
    IN  IF ~ key.ok THEN ParseFail
        ELSE LET c == SkipWs(s, key.pos)
             IN  IF c > Len(s) \/ s[c] # ":" THEN ParseFail
                 ELSE LET v == ParseValue(s, c + 1)
                      IN  IF ~ v.ok THEN ParseFail
                          ELSE LET e == SkipWs(s, v.pos)
                                   ks == Append(keys, key.val.v)
                                   vs == Append(vals, v.val)
                               IN  IF e > Len(s) THEN ParseFail
                                   ELSE IF s[e] = "}"
                                   THEN [ok |-> TRUE, val |-> JObj(ks, vs), pos |-> e + 1]
                                   ELSE IF s[e] = ","
                                   THEN ParseMembers(s, e + 1, ks, vs)
                                   ELSE ParseFail

ParseItems(s, i0, items) ==
    LET v == ParseValue(s, i0)
    IN  IF ~ v.ok THEN ParseFail
        ELSE LET e == SkipWs(s, v.pos)
                 its == Append(items, v.val)
             IN  IF e > Len(s) THEN ParseFail
                 ELSE IF s[e] = "]"
                 THEN [ok |-> TRUE, val |-> JArr(its), pos |-> e + 1]
                 ELSE IF s[e] = ","
                 THEN ParseItems(s, e + 1, its)
                 ELSE ParseFail

\* json.loads(text): the whole text must be one value
Loads(s) ==
    LET v == ParseValue(s, 1)
    IN  IF v.ok /\ SkipWs(s, v.pos) > Len(s) THEN v ELSE ParseFail

\* --------------------------------------------------------- JSON-LD walker

\* A tree location: a string node (attr "", path <<>>), an attribute of a tag,
\* or a string value inside the JSON payload held by a script's string node.
Loc(node, attr, path) == [node |-> node, attr |-> attr, path |-> path]

\* A tag or attribute name as it is stored in a block's record.
Name(s) == <<s>>

\* Mutant of JsonldKeyMatches: the test for "url", "date", "time" and "type" in
\* the key is missing.
JsonldKeyMatchesWithoutMarkers(key) ==
    LET key_lc == str_lower(key)
    IN  /\ key_lc \notin JSONLD_EXCLUDE_KEYS
        /\ \/ key_lc \in TRANSLATABLE_JSONLD_KEYS
           \/ ~ str_startswith(key_lc, <<"@">>)

\* The condition of extract_from_jsonld on the key of a string value.
JsonldKeyMatches(key) ==
    LET key_lc == str_lower(key)
    IN  /\ key_lc \notin JSONLD_EXCLUDE_KEYS
        /\ \/ key_lc \in TRANSLATABLE_JSONLD_KEYS
           \/ /\ ~ str_startswith(key_lc, <<"@">>)
              /\ \A x \in JSONLD_FIELD_MARKERS : ~ str_contains(key_lc, x)

\* The path element of the i-th (0-based) element of a list.
ListIndex(i) == <<"#">> \o IntToStr(i)

\* st is the state the recursion threads and mutates:
\*   [raised, block_counter, structured_output, flattened_output, visits]
\* (the two maps are the caller's dictionaries, mutated in place, so what was
\* stored before an exception stays stored).  ann is the annotator.  The result
\* is [obj, st]: the payload as mutated, and the state; st.block_counter is the
\* returned counter when st.raised is FALSE.
RECURSIVE extract_from_jsonld(_, _, _, _)
RECURSIVE WalkDict(_, _, _, _, _)
RECURSIVE WalkList(_, _, _, _, _)
extract_from_jsonld(obj, st, ann, loc) ==
    IF st.raised THEN [obj |-> obj, st |-> st]
    ELSE IF obj.t = "obj" THEN WalkDict(obj, 1, st, ann, loc)
    ELSE IF obj.t = "arr" THEN WalkList(obj, 1, st, ann, loc)
    ELSE [obj |-> obj, st |-> st]

\* for key in list(obj.keys()), from the k-th key on
WalkDict(obj, k, st, ann, loc) ==
    IF st.raised \/ k > Len(obj.keys) THEN [obj |-> obj, st |-> st]
    ELSE
    LET key == obj.keys[k]
        value == obj.vals[k]
        here == Loc(loc.node, loc.attr, Append(loc.path, key))
    IN  IF value.t = "str" /\ JsonldKeyMatches(key) THEN
            LET block_id == BlockId(st.block_counter)
                n == ann[value.v]
                r == process_text_block(block_id, value.v, n)
            IN  IF n = 0
                THEN \* tokens[0] raises IndexError
                     [obj |-> obj,
                      st |-> [st EXCEPT
                                !.raised = TRUE,
                                !.visits = Append(@, Visit("jsonld", here, value.v, n, None, TRUE))]]
                ELSE WalkDict(
                        [obj EXCEPT !.vals[k] = JStr(r.sentence_tokens[1][1])],
                        k + 1,
                        [st EXCEPT
                            !.structured_output =
                                Update(@, block_id :> [kind |-> "jsonld", ctx |-> key,
                                                        tokens |-> r.structured]),
                            !.flattened_output = Update(@, r.flattened),
                            !.block_counter = @ + 1,
                            !.visits = Append(@, Visit("jsonld", here, value.v, n, block_id, FALSE))],
                        ann, loc)
        ELSE IF value.t \in {"obj", "arr"} THEN
            LET r == extract_from_jsonld(value, st, ann, here)
            IN  WalkDict([obj EXCEPT !.vals[k] = r.obj], k + 1, r.st, ann, loc)
        ELSE WalkDict(obj, k + 1, st, ann, loc)

\* for i in range(len(obj)), from the k-th element on
WalkList(obj, k, st, ann, loc) ==
    IF st.raised \/ k > Len(obj.items) THEN [obj |-> obj, st |-> st]
    ELSE
    LET here == Loc(loc.node, loc.attr, Append(loc.path, ListIndex(k - 1)))
        r == extract_from_jsonld(obj.items[k], st, ann, here)
    IN  WalkList([obj EXCEPT !.items[k] = r.obj], k + 1, r.st, ann, loc)

\* The string values extract_from_jsonld may hand to the annotator.
RECURSIVE JsonldCandidates(_)
JsonldCandidates(obj) ==
    IF obj.t = "obj" THEN
        UNION {IF obj.vals[k].t = "str"
               THEN (IF JsonldKeyMatches(obj.keys[k]) THEN {obj.vals[k].v} ELSE {})
               ELSE JsonldCandidates(obj.vals[k]) : k \in 1..Len(obj.keys)}
    ELSE IF obj.t = "arr" THEN
        UNION {JsonldCandidates(obj.items[k]) : k \in 1..Len(obj.items)}
    ELSE {}

\* The value at path inside a parsed payload (None when there is none).
RECURSIVE JsonGet(_, _)
JsonGet(value, path) ==
    IF path = <<>> THEN value
    ELSE IF value.t = "obj" /\ \E k \in 1..Len(value.keys) : value.keys[k] = Head(path)
    THEN JsonGet(value.vals[CHOOSE k \in 1..Len(value.keys) : value.keys[k] = Head(path)],
                 Tail(path))
    ELSE IF value.t = "arr" /\ \E k \in 1..Len(value.items) : ListIndex(k - 1) = Head(path)
    THEN JsonGet(value.items[CHOOSE k \in 1..Len(value.items) : ListIndex(k - 1) = Head(path)],
                 Tail(path))
    ELSE JStr(None)

EmptyMap == [k \in {} |-> <<>>]

TranslateAttr(value) == IF value = None THEN NoAttrs ELSE ("translate" :> value)

\* ------------------------------------------- extract_translatable_html

LdJson == <<"a","p","p","l","i","c","a","t","i","o","n","/","l","d","+","j","s","o","n">>

\* tag.string: the string node that is the tag's only child (looking through
\* single child tags), 0 for None
RECURSIVE StringChild(_, _)
StringChild(tree, i) ==
    LET children == {j \in 1..Len(tree) : tree[j].parent = i}
    IN  IF Cardinality(children) # 1 THEN 0
        ELSE LET c == CHOOSE j \in children : TRUE
             IN  IF IsString(tree[c]) THEN c ELSE StringChild(tree, c)

\* soup.title: the first title tag, 0 for None
FirstTitle(tree) ==
    LET titles == {j \in 1..Len(tree) : tree[j].kind = "tag" /\ tree[j].name = "title"}
    IN  IF titles = {} THEN 0 ELSE CHOOSE j \in titles : \A k \in titles : j =< k

\* The five phases, in the order the function runs them.
Phases == <<"text", "attrs", "meta", "title", "jsonld", "done">>

\* The nodes a phase's loop visits: soup.find_all(string=True), soup.find_all(),
\* soup.find_all("meta"), soup.find_all("script", {"type": "application/ld+json"}).
Selected(phase, tree, i) ==
    CASE phase = "text" -> IsString(tree[i])
      [] phase = "attrs" -> tree[i].kind = "tag"
      [] phase = "meta" -> tree[i].kind = "tag" /\ tree[i].name = "meta"
      [] phase = "jsonld" -> /\ tree[i].kind = "tag"
                             /\ tree[i].name = "script"
                             /\ "type" \in DOMAIN tree[i].attrs
                             /\ tree[i].attrs["type"] = LdJson
      [] OTHER -> FALSE

\* The next node after i the phase's loop visits, 0 when the loop is over.
NextSelected(phase, tree, i) ==
    LET later == {j \in (i + 1)..Len(tree) : Selected(phase, tree, j)}
    IN  IF later = {} THEN 0 ELSE CHOOSE j \in later : \A k \in later : j =< k

\* Where control is when phase number k starts: a loop over nothing is skipped;
\* the title phase is a single conditional.
RECURSIVE EnterPhase(_, _)
EnterPhase(k, tree) ==
    IF Phases[k] \in {"title", "done"} THEN [pc |-> Phases[k], cur |-> 0]
    ELSE IF NextSelected(Phases[k], tree, 0) # 0
    THEN [pc |-> Phases[k], cur |-> NextSelected(Phases[k], tree, 0)]
    ELSE EnterPhase(k + 1, tree)

\* Where control is after phase number k has handled node i.
Advance(k, tree, i) ==
    IF Phases[k] \notin {"title", "done"} /\ NextSelected(Phases[k], tree, i) # 0
    THEN [pc |-> Phases[k], cur |-> NextSelected(Phases[k], tree, i)]
    ELSE EnterPhase(k + 1, tree)

\* The data the phases read and mutate.
Data ==
    [soup |-> soup, structured_output |-> structured_output,
     flattened_output |-> flattened_output, block_counter |-> block_counter,
     visits |-> visits, written |-> written]

\* One iteration of "Process text nodes" on the string node i.
process_text_node(S, i, ann) ==
    LET element == S.soup[i]
        text == str_strip(element.text)
        block_id == BlockId(S.block_counter)
        here == Loc(i, "", <<>>)
    IN  IF ~ (is_translatable_text(S.soup, i) /\ text # <<>>) THEN S
        ELSE
        LET n == ann[text]
            r == process_text_block(block_id, text, n)
        IN  IF n > 0
            THEN [S EXCEPT
                    !.structured_output =
                        Update(@, block_id :> [kind |-> "tag",
                                                ctx |-> Name(NodeName(S.soup, element.parent)),
                                                tokens |-> r.structured]),
                    !.flattened_output = Update(@, r.flattened),
                    !.soup[i] = TextNode(element.parent, r.sentence_tokens[1][1]),
                    !.block_counter = @ + 1,
                    !.visits = Append(@, Visit("text", here, text, n, block_id, FALSE)),
                    !.written = @ \cup {here}]
            ELSE [S EXCEPT
                    !.visits = Append(@, Visit("text", here, text, n, None, FALSE))]

TextCandidates(S, i) ==
    IF is_translatable_text(S.soup, i) THEN {str_strip(S.soup[i].text)} \ {<<>>} ELSE {}

\* The condition of "Process attributes" on one attribute of a tag; every
\* attribute value of the model is a str.
AttrSelected(tag, attr) ==
    /\ attr \in TRANSLATABLE_ATTRS
    /\ attr \in DOMAIN tag.attrs
    /\ attr \notin BLOCKED_ATTRS

\* "Process attributes" on tag i: for attr in TRANSLATABLE_ATTRS, from the k-th
\* attribute of the iteration order on.
RECURSIVE process_attributes(_, _, _, _, _)
process_attributes(S, i, order, k, ann) ==
    IF k > Len(order) THEN S
    ELSE
    LET tag == S.soup[i]
        attr == order[k]
        value == str_strip(GetAttr(tag, attr))
        block_id == BlockId(S.block_counter)
        here == Loc(i, attr, <<>>)
    IN  IF ~ (AttrSelected(tag, attr) /\ value # <<>>)
        THEN process_attributes(S, i, order, k + 1, ann)
        ELSE
        LET n == ann[value]
            r == process_text_block(block_id, value, n)
            T == [S EXCEPT
                    !.structured_output =
                        Update(@, block_id :> [kind |-> "attr", ctx |-> Name(attr),
                                                tokens |-> r.structured]),
                    !.flattened_output = Update(@, r.flattened),
                    !.block_counter = @ + 1,
                    !.visits = Append(@, Visit("attrs", here, value, n, block_id, FALSE))]
        IN  process_attributes(
                IF n > 0
                THEN [T EXCEPT !.soup[i].attrs[attr] = r.sentence_tokens[1][1],
                               !.written = @ \cup {here}]
                ELSE T,
                i, order, k + 1, ann)

AttrCandidates(S, i) ==
    {str_strip(S.soup[i].attrs[attr]) :
        attr \in {a \in DOMAIN S.soup[i].attrs : AttrSelected(S.soup[i], a)}} \ {<<>>}

\* The condition of "Process meta tags" on one meta tag.
MetaSelected(meta) ==
    LET name == str_lower(GetAttr(meta, "name"))
        prop == str_lower(GetAttr(meta, "property"))
        content == str_strip(GetAttr(meta, "content"))
    IN  /\ ~ (name \in EXCLUDED_META_NAMES \/ prop \in EXCLUDED_META_PROPERTIES)
        /\ content # <<>>
        /\ name \in SEO_META_NAMES \/ prop \in SEO_META_PROPERTIES

\* One iteration of "Process meta tags" on the meta tag i.
process_meta(S, i, ann) ==
    LET meta == S.soup[i]
        name == str_lower(GetAttr(meta, "name"))
        prop == str_lower(GetAttr(meta, "property"))
        content == str_strip(GetAttr(meta, "content"))
        block_id == BlockId(S.block_counter)
        here == Loc(i, "content", <<>>)
    IN  IF ~ MetaSelected(meta) THEN S
        ELSE
        LET n == ann[content]
            r == process_text_block(block_id, content, n)
            T == [S EXCEPT
                    !.structured_output =
                        Update(@, block_id :> [kind |-> "meta",
                                                ctx |-> IF name # <<>> THEN name ELSE prop,
                                                tokens |-> r.structured]),
                    !.flattened_output = Update(@, r.flattened),
                    !.block_counter = @ + 1,
                    !.visits = Append(@, Visit("meta", here, content, n, block_id, FALSE))]
        IN  IF n > 0
            THEN [T EXCEPT !.soup[i].attrs["content"] = r.sentence_tokens[1][1],
                           !.written = @ \cup {here}]
            ELSE T

MetaCandidates(S, i) ==
    IF MetaSelected(S.soup[i]) THEN {str_strip(GetAttr(S.soup[i], "content"))} ELSE {}

\* The string node "Process title tag" works on, 0 when its condition fails.
TitleString(tree) ==
    LET title_tag == FirstTitle(tree)
        string == IF title_tag = 0 THEN 0 ELSE StringChild(tree, title_tag)
    IN  IF string # 0 /\ str_strip(tree[string].text) # <<>> THEN string ELSE 0

\* "Process title tag".
process_title(S, ann) ==
    LET string == TitleString(S.soup)
    IN  IF string = 0 THEN S
        ELSE
        LET text == str_strip(S.soup[string].text)
            block_id == BlockId(S.block_counter)
            here == Loc(string, "", <<>>)
            n == ann[text]
            r == process_text_block(block_id, text, n)
            T == [S EXCEPT
                    !.structured_output =
                        Update(@, block_id :> [kind |-> "tag", ctx |-> Name("title"),
                                                tokens |-> r.structured]),
                    !.flattened_output = Update(@, r.flattened),
                    !.block_counter = @ + 1,
                    !.visits = Append(@, Visit("title", here, text, n, block_id, FALSE))]
        IN  IF n > 0
            THEN [T EXCEPT
                    !.soup[string] = TextNode(S.soup[string].parent, r.sentence_tokens[1][1]),
                    !.written = @ \cup {here}]
            ELSE T

TitleCandidates(S) ==
    IF TitleString(S.soup) = 0 THEN {} ELSE {str_strip(S.soup[TitleString(S.soup)].text)}

\* One iteration of "Process JSON-LD data" on the script tag i: the try block
\* and its except clause.
process_jsonld(S, i, ann) ==
    LET string == StringChild(S.soup, i)
        data == IF string = 0 THEN ParseFail ELSE Loads(str_strip(S.soup[string].text))
    IN  IF ~ data.ok THEN S   \* script_tag.string is None, or json.loads raised
        ELSE
        LET r == extract_from_jsonld(
                    data.val,
                    [raised |-> FALSE, block_counter |-> S.block_counter,
                     structured_output |-> S.structured_output,
                     flattened_output |-> S.flattened_output, visits |-> S.visits],
                    ann, Loc(string, "", <<>>))
            kept == [S EXCEPT !.structured_output = r.st.structured_output,
                              !.flattened_output = r.st.flattened_output,
                              !.visits = r.st.visits]
        IN  IF r.st.raised THEN kept   \* block_counter was not assigned
            ELSE [kept EXCEPT
                    !.block_counter = r.st.block_counter,
                    !.soup[string] = TextNode(S.soup[string].parent, Dumps(r.obj, 0)),
                    !.written = @ \cup {r.st.visits[k].loc :
                                            k \in (Len(S.visits) + 1)..Len(r.st.visits)}]

JsonldPayloadCandidates(S, i) ==
    LET string == StringChild(S.soup, i)
        data == IF string = 0 THEN ParseFail ELSE Loads(str_strip(S.soup[string].text))
    IN  IF data.ok THEN JsonldCandidates(data.val) ELSE {}

\* The annotators that agree with what the annotator has returned so far.
Oracles(cands) ==
    {f \in [cands -> 0..MaxSents] : \A t \in cands : f[t] \in SentenceCounts(t)}

\* The step's result becomes the state; the annotator remembers what it returned.
Commit(T, ann) ==
    /\ soup' = T.soup
    /\ structured_output' = T.structured_output
    /\ flattened_output' = T.flattened_output
    /\ block_counter' = T.block_counter
    /\ visits' = T.visits
    /\ written' = T.written
    /\ annot' = Update(annot,
                       [t \in {T.visits[k].text : k \in (Len(visits) + 1)..Len(T.visits)}
                           |-> ann[t]])

Goto(a) == pc' = a.pc /\ cur' = a.cur

TextNodeStep ==
    /\ pc = "text"
    /\ \E ann \in Oracles(TextCandidates(Data, cur)) :
          Commit(process_text_node(Data, cur, ann), ann)
    /\ Goto(Advance(1, soup', cur))
    /\ UNCHANGED <<attr_order, run, first, verdict, input>>

AttrStep ==
    /\ pc = "attrs"
    /\ \E ann \in Oracles(AttrCandidates(Data, cur)) :
          Commit(process_attributes(Data, cur, attr_order, 1, ann), ann)
    /\ Goto(Advance(2, soup', cur))
    /\ UNCHANGED <<attr_order, run, first, verdict, input>>

MetaStep ==
    /\ pc = "meta"
    /\ \E ann \in Oracles(MetaCandidates(Data, cur)) :
          Commit(process_meta(Data, cur, ann), ann)
    /\ Goto(Advance(3, soup', cur))
    /\ UNCHANGED <<attr_order, run, first, verdict, input>>

TitleStep ==
    /\ pc = "title"
    /\ \E ann \in Oracles(TitleCandidates(Data)) :
          Commit(process_title(Data, ann), ann)
    /\ Goto(Advance(4, soup', cur))
    /\ UNCHANGED <<attr_order, run, first, verdict, input>>

JsonLdStep ==
    /\ pc = "jsonld"
    /\ \E ann \in Oracles(JsonldPayloadCandidates(Data, cur)) :
          Commit(process_jsonld(Data, cur, ann), ann)
    /\ Goto(Advance(5, soup', cur))
    /\ UNCHANGED <<attr_order, run, first, verdict, input>>

Next == TextNodeStep \/ AttrStep \/ MetaStep \/ TitleStep \/ JsonLdStep

\* ------------------------------------------------------------- documents

Abc == <<"a","b","c">>
De == <<"d","e">>

\* {"name":"abc","sku":""}: the second value has no sentence
PayloadPartial == <<"{","\"","n","a","m","e","\"",":","\"","a","b","c","\"",",","\"","s","k","u","\"",":","\"","\"","}">>

\* {"name":"abc","uploadDate":"de"}
PayloadDated == <<"{","\"","n","a","m","e","\"",":","\"","a","b","c","\"",",","\"","u","p","l","o","a","d","D","a","t","e","\"",":","\"","d","e","\"","}">>

\* {"name": malformed
PayloadMalformed == <<"{","\"","n","a","m","e","\"",":">>

\* {"name":"abc"}
PayloadSimple == <<"{","\"","n","a","m","e","\"",":","\"","a","b","c","\"","}">>

\* {"@type":"de","item":[{"headline":"de"},7]}
PayloadNested == <<"{","\"","@","t","y","p","e","\"",":","\"","d","e","\"",",","\"","i","t","e","m","\"",":","[","{","\"","h","e","a","d","l","i","n","e","\"",":","\"","d","e","\"","}",",","7","]","}">>

\* <html translate=HTML><head><title>abc</title>
\*   <meta name="Description" content=" abc"><meta name="viewport" content="abc">
\*   <script type="application/ld+json">P1</script>
\*   <script type="application/ld+json">P2</script></head>
\* <body><div translate=DIV><p> abc\n</p><img alt="abc" title="de"></div></body></html>
RunDoc(html, div, p1, p2) ==
    << TagNode(0, "html", TranslateAttr(html), {}),
       TagNode(1, "head", NoAttrs, {}),
       TagNode(2, "title", NoAttrs, {}),
       TextNode(3, Abc),
       TagNode(2, "meta", ("name" :> <<"D","e","s","c","r","i","p","t","i","o","n">>) @@ ("content" :> <<" ">> \o Abc), {}),
       TagNode(2, "meta", ("name" :> <<"v","i","e","w","p","o","r","t">>) @@ ("content" :> Abc), {}),
       TagNode(2, "script", ("type" :> LdJson), {}),
       TextNode(7, p1),
       TagNode(2, "script", ("type" :> LdJson), {}),
       TextNode(9, p2),
       TagNode(1, "body", NoAttrs, {}),
       TagNode(11, "div", TranslateAttr(div), {}),
       TagNode(12, "p", NoAttrs, {}),
       TextNode(13, <<" ">> \o Abc \o <<"\n">>),
       TagNode(12, "img", ("alt" :> Abc) @@ ("title" :> De), {}) >>

RunDocs ==
    {RunDoc(html, div, p1, p2) :
        html \in {None, Yes}, div \in {None, No},
        p1 \in {PayloadPartial, PayloadDated, PayloadMalformed},
        p2 \in {PayloadSimple, PayloadNested}}

\* The translatable attributes that occur in the document: the others never pass
\* "attr in tag.attrs", so only the relative order of these is observable.
UsedAttrs(tree) ==
    UNION {DOMAIN tree[i].attrs \cap TRANSLATABLE_ATTRS : i \in 1..Len(tree)}

\* The orders in which one process may iterate over a set of strings.
IterationOrders(set) ==
    {order \in [1..Cardinality(set) -> set] :
        \A a \in set : \E k \in 1..Cardinality(set) : order[k] = a}

\* The state when the first phase starts on document doc.
Start(doc) ==
    /\ soup = doc
    /\ input = doc
    /\ structured_output = EmptyMap
    /\ flattened_output = EmptyMap
    /\ block_counter = 1
    /\ pc = EnterPhase(1, doc).pc
    /\ cur = EnterPhase(1, doc).cur
    /\ attr_order \in IterationOrders(UsedAttrs(doc))
    /\ annot = EmptyMap
    /\ visits = <<>>
    /\ written = {}
    /\ run = 1
    /\ first = <<>>
    /\ verdict = FALSE

Init == \E doc \in RunDocs : Start(doc)

Spec == Init /\ [][Next]_vars

\* ------------------------------------------- the classifier on its own

\* Characters of the fragments handed to the classifier on its own.
ClassifyAlphabet == {"a", "1", "+", "!", " ", "$", "U+5317"}

ClassifyTexts == UNION {[1..n -> ClassifyAlphabet] : n \in 0..MaxLen}

\* <div translate=outer><NAME class=classes translate=inner>text</NAME></div>
ClassifyDoc(outer, inner, name, classes, kind, text) ==
    << TagNode(0, "div", TranslateAttr(outer), {}),
       TagNode(1, name, TranslateAttr(inner), classes),
       IF kind = "comment" THEN CommentNode(2, text) ELSE TextNode(2, text) >>

InitClassify ==
    /\ \E outer \in {None, <<"Y","E","S">>, No}, inner \in {None, Yes, No},
          name \in {"p", "code", "math"}, classes \in {{}, {"formula"}},
          kind \in {"text", "comment"}, text \in ClassifyTexts :
          soup = ClassifyDoc(outer, inner, name, classes, kind, text)
    /\ structured_output = EmptyMap
    /\ flattened_output = EmptyMap
    /\ block_counter = 1
    /\ pc = "classify"
    /\ cur = 3
    /\ attr_order = <<>>
    /\ annot = EmptyMap
    /\ visits = <<>>
    /\ written = {}
    /\ run = 1
    /\ first = <<>>
    /\ verdict = FALSE
    /\ input = soup

Classify ==
    /\ pc = "classify"
    /\ verdict' = is_translatable_text(soup, cur)
    /\ pc' = "classified"
    /\ UNCHANGED <<soup, structured_output, flattened_output, block_counter, cur,
                   attr_order, annot, visits, written, run, first, input>>

NextClassify == Classify

SpecClassify == InitClassify /\ [][NextClassify]_vars

\* ---------------------------------------------------- a second run

\* The program is started again on the same input file: a new process, so a new
\* iteration order of the set of attribute names; the annotator is the same.
SecondRun ==
    /\ pc = "done"
    /\ run = 1
    /\ run' = 2
    /\ first' = [structured_output |-> structured_output,
                 flattened_output |-> flattened_output, soup |-> soup]
    /\ soup' = input
    /\ structured_output' = EmptyMap
    /\ flattened_output' = EmptyMap
    /\ block_counter' = 1
    /\ Goto(EnterPhase(1, input))
    /\ attr_order' \in IterationOrders(UsedAttrs(input))
    /\ visits' = <<>>
    /\ written' = {}
    /\ UNCHANGED <<annot, verdict, input>>

InitRuns ==
    \E html \in {None, Yes}, div \in {None, No} :
        Start(RunDoc(html, div, PayloadDated, PayloadSimple))

NextRuns == TextNodeStep \/ AttrStep \/ MetaStep \/ TitleStep \/ JsonLdStep \/ SecondRun

SpecRuns == InitRuns /\ [][NextRuns]_vars

\* ------------------------------------------- the walker on one payload

\* Keys of the second member of the payload.
WalkKeys ==
    {<<"d","u","r","a","t","i","o","n">>,
     <<"u","p","l","o","a","d","D","a","t","e">>,
     <<"e","m","b","e","d","U","r","l">>,
     <<"c","o","n","t","e","n","t","U","r","l">>,
     <<"t","h","u","m","b","n","a","i","l","U","r","l">>,
     <<"U","P","L","O","A","D","D","A","T","E">>,
     <<"D","u","r","a","t","i","o","n">>,
     <<"d","e","s","c","r","i","p","t","i","o","n">>,
     <<"a","l","t","e","r","n","a","t","e","N","a","m","e">>,
     <<"s","k","u">>,
     <<"@","i","d">>,
     <<"d","a","t","e","P","u","b","l","i","s","h","e","d">>,
     <<"r","u","n","t","i","m","e">>}

\* {"name":"abc",KEY:"de"}, or with the member inside a list of objects:
\* {"name":"abc","item":[{KEY:"de"}]}
WalkPayload(key, nested) ==
    IF nested
    THEN <<"{","\"","n","a","m","e","\"",":","\"","a","b","c","\"",",","\"","i","t","e","m","\"",":","[","{","\"">> \o key \o <<"\"",":","\"","d","e","\"","}","]","}">>
    ELSE <<"{","\"","n","a","m","e","\"",":","\"","a","b","c","\"",",","\"">> \o key \o <<"\"",":","\"","d","e","\"","}">>

\* The path of the member KEY in WalkPayload(key, nested).
WalkPath(key, nested) ==
    IF nested THEN <<<<"i","t","e","m">>, ListIndex(0), key>> ELSE <<key>>

\* <head><meta name="description" content="abc">
\*   <script type="application/ld+json">PAYLOAD</script></head>
WalkDoc(key, nested) ==
    << TagNode(0, "head", NoAttrs, {}),
       TagNode(1, "meta", ("name" :> <<"d","e","s","c","r","i","p","t","i","o","n">>) @@ ("content" :> Abc), {}),
       TagNode(1, "script", ("type" :> LdJson), {}),
       TextNode(3, WalkPayload(key, nested)) >>

InitWalk == \E key \in WalkKeys, nested \in BOOLEAN : Start(WalkDoc(key, nested))

SpecWalk == InitWalk /\ [][Next]_vars

\* ------------------------------------------------------------ properties

\* What the tree holds at a location.
Content(tree, loc) ==
    IF loc.path # <<>>
    THEN LET data == Loads(str_strip(tree[loc.node].text))
         IN  IF data.ok /\ JsonGet(data.val, loc.path).t = "str"
             THEN JsonGet(data.val, loc.path).v ELSE None
    ELSE IF loc.attr # "" THEN GetAttr(tree[loc.node], loc.attr)
    ELSE tree[loc.node].text

FirstSentence == <<"_", "S", "1">>

Recorded(k) == visits[k].block # None

\* C1: no two blocks recorded in one run share an identifier: every block stored
\* in the structured map gets an identifier no earlier stored block got.
C1_BlockIdsNeverReused ==
    \A j \in 1..Len(visits) : \A k \in (j + 1)..Len(visits) :
        Recorded(j) /\ Recorded(k) => visits[j].block # visits[k].block

\* C2: at the end of a run, what stands at every location a placeholder was
\* written to is BLOCK_n_S1 for a block BLOCK_n of the structured map that has a
\* sentence S1.
C2_PlaceholdersResolve ==
    pc = "done" =>
        \A loc \in written :
            \E b \in DOMAIN structured_output :
                /\ Content(soup, loc) = b \o FirstSentence
                /\ <<"S", "1">> \in DOMAIN structured_output[b].tokens

\* C2 witness: a finished run that wrote placeholders into a text node, an
\* attribute, a meta content and a JSON-LD value.
C2_Witness ==
    /\ pc = "done"
    /\ \E loc \in written : loc.path # <<>>
    /\ \E loc \in written : loc.attr = "content"
    /\ \E loc \in written : loc.attr = "alt"
    /\ \E loc \in written : loc.attr = "" /\ loc.path = <<>>

\* C3: at the end of a run, every block recorded in the structured map has its
\* placeholder (its first sentence identifier) in the tree at the location of
\* the fragment it was extracted from.
C3_EveryBlockHasItsPlaceholder ==
    pc = "done" =>
        \A k \in 1..Len(visits) :
            Recorded(k) => Content(soup, visits[k].loc) = visits[k].block \o FirstSentence

\* C4: whenever the annotator returns no sentence for a fragment, no block is
\* recorded for it and it is not an error (processing goes on with the next
\* fragment).
C4_EmptySegmentationIsNoOp ==
    \A k \in 1..Len(visits) :
        visits[k].n = 0 => ~ Recorded(k) /\ ~ visits[k].raised

\* The nearest translate override declared above the node of a location (for an
\* attribute: above its tag).
OverrideAbove(loc) == NearestOverride(input, input[loc.node].parent)

\* C5: no fragment (text node or attribute value of a tag) below an ancestor
\* whose nearest declared override is "no" is extracted (recorded as a block and
\* replaced by a placeholder).
C5_NoOverrideBlocksEveryFragment ==
    \A k \in 1..Len(visits) :
        /\ visits[k].phase \in {"text", "attrs"}
        /\ Recorded(k)
        /\ visits[k].loc \in written
        => OverrideAbove(visits[k].loc) # No

\* C6: a second run on the same document with the same annotator produces the
\* same structured and flat maps (so the same identifiers).
C6_RunsAgree ==
    run = 2 /\ pc = "done" =>
        /\ structured_output = first.structured_output
        /\ flattened_output = first.flattened_output

\* The keys of the exclusion set, whatever their letter case.
ExcludedKey(key) ==
    str_lower(key) \in {str_lower(x) : x \in JSONLD_EXCLUDE_KEYS}

\* C7: a string value whose key is in the exclusion set (in any letter case) is
\* never handed to segmentation, and at the end of the run it still stands in
\* the payload as it was; of {"name": ..., "uploadDate": ...} only "name" is.
C7_ExcludedKeysUntouched ==
    /\ \A k \in 1..Len(visits) :
          visits[k].phase = "jsonld" =>
              ~ ExcludedKey(visits[k].loc.path[Len(visits[k].loc.path)])
    /\ pc = "done" =>
          \A i \in 1..Len(soup) : \A key \in WalkKeys : \A nested \in BOOLEAN :
              LET before == Loc(i, "", WalkPath(key, nested))
              IN  IsString(input[i]) /\ ExcludedKey(key) /\ Content(input, before) # None
                  => Content(soup, before) = Content(input, before)

\* C7 witness: the payload {"name":"abc","uploadDate":"de"} has been walked and
\* rewritten: "name" holds a placeholder.
C7_Witness ==
    /\ pc = "done"
    /\ input[4].text = WalkPayload(<<"u","p","l","o","a","d","D","a","t","e">>, FALSE)
    /\ Loc(4, "", <<<<"n","a","m","e">>>>) \in written
    /\ Content(soup, Loc(4, "", <<<<"u","p","l","o","a","d","D","a","t","e">>>>)) = De

YesAbove(tree, i) ==
    NearestOverride(tree, tree[i].parent) = Yes /\ str_strip(tree[i].text) # <<>>

\* C8 as claimed: a non-empty text fragment whose nearest declared override is
\* "yes" is extracted, whatever its parent tag.
C8_YesOverrideAlwaysExtracts ==
    pc = "classified" /\ YesAbove(soup, cur) => verdict

\* C8 as amended: a non-empty text fragment whose nearest declared override is
\* "yes" is extracted, whatever its parent tag, exactly when the symbol and math
\* screen (which runs before the override is looked at) does not reject it.
C8_YesOverrideExtractsUnlessScreened ==
    pc = "classified" /\ YesAbove(soup, cur) => (verdict <=> ~ SkipsMathOrSymbol(soup, cur))

\* C8 witness: a fragment in <code> (a skip context) accepted under "yes".
C8_Witness ==
    /\ pc = "classified"
    /\ YesAbove(soup, cur)
    /\ soup[soup[cur].parent].name = "code"
    /\ verdict

\* C9: a non-empty text fragment with no override above it, whose parent tag is
\* in the whitelist and not a skip context, that contains a letter and does not
\* match the mathematical-fragment signature, is accepted.
C9_PlainTextInWhitelistAccepted ==
    LET text == str_strip(soup[cur].text)
        parent_tag == soup[soup[cur].parent].name
    IN  /\ pc = "classified"
        /\ soup[cur].kind = "text"
        /\ NearestOverride(soup, soup[cur].parent) = None
        /\ parent_tag \in TRANSLATABLE_TAGS \ SKIP_PARENTS
        /\ \E i \in 1..Len(text) : text[i] \in AsciiLetter
        /\ ~ equation_pattern(text)
        => verdict

\* C10: a text handed to segmentation is never a placeholder that an earlier
\* step of the same run wrote into the tree.
C10_PlaceholdersNeverSegmented ==
    \A j \in 1..Len(visits) : \A k \in (j + 1)..Len(visits) :
        Recorded(j) /\ visits[j].n > 0
            => visits[k].text # visits[j].block \o FirstSentence

====
